---- MODULE Spec2Model ----
(***************************************************************************)
(* Model of the Sparv job life cycle of mink-backend (src/mink/jobs.py).   *)
(*                                                                         *)
(* One corpus is followed.  `job` is the in-memory Job object of the       *)
(* backend, `cache` and `backup` are the two stores Job.save writes.  The  *)
(* Sparv server is the set `alive` of running remote processes; what the   *)
(* remote commands answer (exit codes, stderr, the nohup file) is an input *)
(* of each operation.  Every operation of Job is one action; the calls it  *)
(* makes on the outside (ssh, rsync, storage, queue) and every save are    *)
(* recorded, in order, in `trace`, and `last` tells which operation ran,   *)
(* on what record, with what inputs and how it ended.  `sparv_installs` is *)
(* what the backend process has appended to the list                       *)
(* app.config["SPARV_DEFAULT_INSTALLS"] since it started.                  *)
(***************************************************************************)
EXTENDS Integers, Sequences, FiniteSets, TLC

VARIABLES job, cache, backup, alive, storage_local, sparv_installs, last, trace

vars == <<job, cache, backup, alive, storage_local, sparv_installs, last, trace>>

(***************************************************************************)
(* Bounds of the model.                                                    *)
(***************************************************************************)
\* the process ids of the Sparv server are 1..MaxPid
MaxPid == 1

\* the clock of the specification that follows the time reads 0..MaxTime
MaxTime == 1

\* the specification of the installs follows a backend process until it has
\* called install_korp MaxInstalls times
MaxInstalls == 2

\* the specification of the parser reads nohup files of up to MaxLines lines
MaxLines == 2

\* the specification of the workers has the corpora 1..MaxCorpora
MaxCorpora == 2

\* config.SPARV_WORKERS: the number of available Sparv workers
SPARV_WORKERS == 1

\* Python's None, for the optional integer fields (pid, started, done)
None == -1

Pids == 1..MaxPid
\* the readings of the clock
Clock == {0}

(***************************************************************************)
(* class Status                                                            *)
(***************************************************************************)
Status ==
    {"none", "syncing_corpus", "waiting", "annotating", "done_annotating",
     "syncing_results", "done_syncing", "waiting_install", "installing",
     "done_installing", "error", "aborted"}

is_active(status) ==
    status \in {"syncing_corpus", "waiting", "annotating", "waiting_install", "installing"}

is_inactive(status) ==
    status \in {"done_syncing", "done_installing", "error", "aborted"}

is_waiting(status) ==
    status \in {"waiting", "waiting_install"}

\* is_running if an install did not count as running
is_running_OnlyAnnotating(status) == status = "annotating"

is_running(status) ==
    status \in {"annotating", "installing"}

is_done_processing(status) ==
    status \in {"done_annotating", "done_syncing", "done_installing"}

has_process_output(status) ==
    status \in {"annotating", "done_annotating", "syncing_results", "done_syncing",
                "installing", "done_installing", "error"}

(***************************************************************************)
(* class Job: construction, serialisation, the two stores                  *)
(***************************************************************************)
\* Job.__init__ with the defaults of its keyword arguments; install_scrambled
\* is None, False or True, the last two written as Python's 0 and 1
NewJob ==
    [status |-> "none", pid |-> None, started |-> None, done |-> None,
     sparv_done |-> None, install_scrambled |-> None, installed_korp |-> FALSE,
     latest_seconds_taken |-> 0, progress_output |-> "0%"]

\* the keyword arguments of Job.__init__ that the model follows
KnownArgs ==
    {"status", "pid", "started", "done", "install_scrambled", "installed_korp",
     "latest_seconds_taken"}

Arg(kw, name) == IF name \in DOMAIN kw THEN kw[name] ELSE NewJob[name]

\* Job(**kw) if __init__ had no **_obsolete: TypeError for an unexpected keyword
Job_NoObsolete(kw) ==
    IF DOMAIN kw \subseteq KnownArgs
    THEN [status |-> Arg(kw, "status"), pid |-> Arg(kw, "pid"),
          started |-> Arg(kw, "started"), done |-> Arg(kw, "done"),
          sparv_done |-> None, install_scrambled |-> Arg(kw, "install_scrambled"),
          installed_korp |-> Arg(kw, "installed_korp"),
          latest_seconds_taken |-> Arg(kw, "latest_seconds_taken"),
          progress_output |-> "0%"]
    ELSE [raises |-> "TypeError"]

\* Job(**kw): the arguments given, the defaults for the others; a keyword that
\* is no argument goes to **_obsolete and is dropped
Job(kw) ==
    [status |-> Arg(kw, "status"), pid |-> Arg(kw, "pid"),
     started |-> Arg(kw, "started"), done |-> Arg(kw, "done"),
     sparv_done |-> None, install_scrambled |-> Arg(kw, "install_scrambled"),
     installed_korp |-> Arg(kw, "installed_korp"),
     latest_seconds_taken |-> Arg(kw, "latest_seconds_taken"),
     progress_output |-> "0%"]

\* no entry in the cache / no backup file
NoJob == [absent |-> TRUE]

\* Job.__str__: the fields that are written; sparv_done and progress_output are not
Dump(j) ==
    [status |-> j.status, pid |-> j.pid, started |-> j.started, done |-> j.done,
     install_scrambled |-> j.install_scrambled, installed_korp |-> j.installed_korp,
     latest_seconds_taken |-> j.latest_seconds_taken]

\* load_from_str: the stored fields, install_scrambled replaced by the argument
\* that is not None, then Job(**job_info)
load_from_str(rec, install_scrambled) ==
    Job(IF install_scrambled # None
        THEN [install_scrambled |-> install_scrambled] @@ rec
        ELSE rec)

(***************************************************************************)
(* The run of one operation is a record m:                                 *)
(*   job, cache, backup : as the variables                                 *)
(*   trace  : the outside calls and the saves made so far, in order        *)
(*   result : "running" until the operation returns or raises              *)
(*   ret    : what the last helper called returned                         *)
(*   sparv_installs : as the variable                                      *)
(*   steps  : the outside calls and saves the backend still makes before   *)
(*            it crashes (None: it does not crash); the run of a backend   *)
(*            that has crashed has the result "crashed" and makes no more  *)
(***************************************************************************)
Begin == [job |-> job, cache |-> cache, backup |-> backup, trace |-> <<>>,
          result |-> "running", ret |-> <<>>, sparv_installs |-> sparv_installs,
          steps |-> None]

\* the run of a backend that crashes after so many calls and saves
BeginUntil(steps) == [Begin EXCEPT !.steps = steps]

Event(e, cmd, rec) == [e |-> e, cmd |-> cmd, rec |-> rec]

\* the next call or save of a run: made, or the crash
Step(m, event) ==
    IF m.result = "crashed" THEN m
    ELSE IF m.steps = 0 THEN [m EXCEPT !.result = "crashed"]
    ELSE [m EXCEPT !.trace = Append(@, event),
                   !.steps = IF @ = None THEN None ELSE @ - 1]

\* what the trace keeps of a record that is saved
Saved(j) == [status |-> j.status, pid |-> j.pid]

NoSave == [status |-> "", pid |-> None]

\* an outside call: utils.ssh_run, subprocess.run(rsync), storage.*, queue.*
Call(m, e, cmd) == Step(m, Event(e, cmd, NoSave))

\* an outside call of which the trace keeps an argument
CallWith(m, e, cmd, rec) == Step(m, Event(e, cmd, rec))

Return(m, value) == IF m.result = "crashed" THEN m ELSE [m EXCEPT !.result = value]

Raise(m, exception) == IF m.result = "crashed" THEN m ELSE [m EXCEPT !.result = exception]

\* Job.save: cache first, then the backup file
save(m) ==
    LET m1 == Step(m, Event("save", "", Saved(m.job)))
    IN  IF m1.result = "crashed" THEN m1
        ELSE [m1 EXCEPT !.cache = Dump(m.job), !.backup = Dump(m.job)]

set_status(m, status) ==
    IF m.job.status # status THEN save([m EXCEPT !.job.status = status]) ELSE m

set_pid(m, pid) == save([m EXCEPT !.job.pid = pid])

reset_time(m) ==
    save([m EXCEPT !.job.latest_seconds_taken = 0, !.job.started = None,
                   !.job.done = None, !.job.sparv_done = None])

(***************************************************************************)
(* Job.get_output: the nohup file and its parse                            *)
(*                                                                         *)
(* A line of the file is one of                                            *)
(*   tagged  : "HH:MM:SS TAG message"      (the first regular expression)  *)
(*   cont    : eight or more blanks and a text      (a line continuation)  *)
(*   real    : "real <d>..."; secs is the float read, None if float() fails*)
(*   usersys : "user ..." or "sys <d>..."                                  *)
(*   text    : any other line that is not blank                            *)
(*   blank   : an empty line                                               *)
(***************************************************************************)
Tagged(tag, msg) == [k |-> "tagged", tag |-> tag, msg |-> msg, secs |-> None]
Cont(msg) == [k |-> "cont", tag |-> "", msg |-> msg, secs |-> None]
Real(secs) == [k |-> "real", tag |-> "", msg |-> "", secs |-> secs]
UserSys == [k |-> "usersys", tag |-> "", msg |-> "", secs |-> None]
Text(msg) == [k |-> "text", tag |-> "", msg |-> msg, secs |-> None]
Blank == [k |-> "blank", tag |-> "", msg |-> "", secs |-> None]

\* the contents of the nohup file that a poll of the model reads
Outputs ==
    {<<>>,
     <<Tagged("PROGRESS", "50%")>>,
     <<Tagged("PROGRESS", "100%")>>,
     <<Tagged("WARNING", "w"), Cont("more"), Tagged("PROGRESS", "100%")>>,
     <<Tagged("ERROR", "e"), Tagged("PROGRESS", "50%")>>,
     <<Text("Nothing to be done."), UserSys>>,
     <<Text("Sparv output"), Text("Nothing to be done.")>>,
     <<Blank, Cont("more"), Tagged("INFO", "i")>>,
     <<Tagged("PROGRESS", "50%"), Real(None)>>}

RECURSIVE DropLeadingBlank(_)
DropLeadingBlank(lines) ==
    IF lines # <<>> /\ Head(lines).k = "blank" THEN DropLeadingBlank(Tail(lines)) ELSE lines

RECURSIVE DropTrailingBlank(_)
DropTrailingBlank(lines) ==
    IF lines # <<>> /\ lines[Len(lines)].k = "blank"
    THEN DropTrailingBlank(SubSeq(lines, 1, Len(lines) - 1))
    ELSE lines

\* p.stdout.decode().strip(): blank lines at both ends go, and so does the
\* indentation of the first line, which then is no continuation any more
Strip(lines) ==
    LET core == DropTrailingBlank(DropLeadingBlank(lines))
    IN  IF core # <<>> /\ Head(core).k = "cont"
        THEN <<Text(Head(core).msg)>> \o Tail(core)
        ELSE core

\* the state of the loop over the lines; latest_msg is the list that a
\* continuation line is appended to
ParseStart(sparv_done) ==
    [progress |-> "", warnings |-> <<>>, errors |-> <<>>, misc |-> <<>>,
     latest_msg |-> "misc", sparv_done |-> sparv_done, exception |-> ""]

AppendTo(st, list, entry) ==
    CASE list = "warnings" -> [st EXCEPT !.warnings = Append(@, entry)]
      [] list = "errors"   -> [st EXCEPT !.errors = Append(@, entry)]
      [] OTHER             -> [st EXCEPT !.misc = Append(@, entry)]

\* the body of the loop if a "real" line added its seconds to the completion
\* time that the job has from an earlier parse
ParseLine_RealAccumulates(st, line, started) ==
    CASE line.k = "tagged" ->
            (CASE line.tag = "PROGRESS" -> [st EXCEPT !.progress = line.msg]
               [] line.tag = "WARNING" ->
                    [AppendTo(st, "warnings", <<line.tag, line.msg>>)
                        EXCEPT !.latest_msg = "warnings"]
               [] line.tag = "ERROR" ->
                    [AppendTo(st, "errors", <<line.tag, line.msg>>)
                        EXCEPT !.latest_msg = "errors"]
               [] OTHER -> st)
      [] line.k = "cont" -> AppendTo(st, st.latest_msg, <<"", line.msg>>)
      [] line.k = "real" ->
            IF line.secs = None THEN [st EXCEPT !.exception = "ValueError"]
            ELSE IF started = None THEN [st EXCEPT !.exception = "TypeError"]
            ELSE [st EXCEPT !.sparv_done =
                      (IF @ = None THEN started ELSE @) + line.secs]
      [] line.k = "usersys" -> st
      [] line.k = "text" -> AppendTo(st, "misc", <<"", line.msg>>)
      [] OTHER -> st

\* the body of the loop, for one line
ParseLine(st, line, started) ==
    CASE line.k = "tagged" ->
            (CASE line.tag = "PROGRESS" -> [st EXCEPT !.progress = line.msg]
               [] line.tag = "WARNING" ->
                    [AppendTo(st, "warnings", <<line.tag, line.msg>>)
                        EXCEPT !.latest_msg = "warnings"]
               [] line.tag = "ERROR" ->
                    [AppendTo(st, "errors", <<line.tag, line.msg>>)
                        EXCEPT !.latest_msg = "errors"]
               [] OTHER -> st)
      [] line.k = "cont" -> AppendTo(st, st.latest_msg, <<"", line.msg>>)
      [] line.k = "real" ->
            IF line.secs = None THEN [st EXCEPT !.exception = "ValueError"]
            ELSE IF started = None THEN [st EXCEPT !.exception = "TypeError"]
            ELSE [st EXCEPT !.sparv_done = started + line.secs]
      [] line.k = "usersys" -> st
      [] line.k = "text" -> AppendTo(st, "misc", <<"", line.msg>>)
      [] OTHER -> st

RECURSIVE ParseLines(_, _, _)
ParseLines(st, lines, started) ==
    IF lines = <<>> \/ st.exception # "" THEN st
    ELSE ParseLines(ParseLine(st, Head(lines), started), Tail(lines), started)

\* misc.startswith("Nothing to be done.")
StartsWithNothingToBeDone(misc) ==
    misc # <<>> /\ Head(misc) = <<"", "Nothing to be done.">>

\* the parse of a file that is not empty: the loop, then the rule for a run
\* that had nothing to do
ParseOutput(stdout, started, sparv_done) ==
    LET st == ParseLines(ParseStart(sparv_done), stdout, started)
    IN  IF st.exception = "" /\ StartsWithNothingToBeDone(st.misc)
        THEN [st EXCEPT !.progress = "100%"]
        ELSE st

\* Job.get_output.  m.ret is <<warnings, errors, misc>>
get_output(m, output) ==
    IF ~has_process_output(m.job.status) THEN [m EXCEPT !.ret = <<<<>>, <<>>, <<>>>>]
    ELSE LET m1 == Call(m, "ssh", "cat nohupfile")
             stdout == Strip(output)
             st == ParseOutput(stdout, m1.job.started, m1.job.sparv_done)
         IN  IF stdout = <<>> THEN [m1 EXCEPT !.ret = <<<<>>, <<>>, <<>>>>]
             ELSE IF st.exception # ""
                  THEN Raise([m1 EXCEPT !.job.sparv_done = st.sparv_done], st.exception)
                  ELSE [m1 EXCEPT !.job.sparv_done = st.sparv_done,
                                  !.job.progress_output = st.progress,
                                  !.ret = <<st.warnings, st.errors, st.misc>>]

(***************************************************************************)
(* What the Sparv server answers                                           *)
(***************************************************************************)
\* the run script: exit code and the pid echoed (None: nothing that int() reads)
Launched(pid) == [returncode |-> 0, stdout |-> pid]
LaunchFailed == [returncode |-> 1, stdout |-> None]
LaunchNoPid == [returncode |-> 0, stdout |-> None]

\* kill -0 <pid>: 0 only for a live process; ssh itself can fail for a live one
ProbeAnswers(pid) ==
    {[returncode |-> 0, stderr |-> ""] : x \in {pid} \cap alive}
    \cup {[returncode |-> 1, stderr |-> "kill: No such process\n"]}

\* kill -SIGTERM <pid>
KillAnswers(pid) ==
    {[returncode |-> 0, stderr |-> ""] : x \in {pid} \cap alive}
    \cup {[returncode |-> 1, stderr |-> e] :
            e \in IF pid \in alive THEN {}
                  ELSE {"kill: No such process\n", "kill: Processen finns inte\n"}}
    \cup {[returncode |-> 255, stderr |-> "ssh: Connection timed out\n"]}

\* stderr.endswith("Processen finns inte\n") or stderr.endswith("No such process\n")
EndsWithNoSuchProcess(stderr) ==
    stderr \in {"kill: No such process\n", "kill: Processen finns inte\n"}

\* "if not self.pid"
NoPid(pid) == pid = None \/ pid = 0

\* what the storage server holds of the corpus: the config file, source files
Contents == [config : BOOLEAN, sources : BOOLEAN]

\* storage.list_contents: the contents, or the exception it raises
Listings == Contents \cup {[raises |-> "Exception"]}

(***************************************************************************)
(* The operations of Job                                                   *)
(***************************************************************************)
\* Job.check_requirements; listing is what storage.list_contents answers
check_requirements(m, listing) ==
    LET m1 == Call(m, "storage", "list_contents")
    IN  IF listing \notin Contents THEN Raise(m1, listing.raises)
        ELSE IF ~listing.config THEN Raise(set_status(m1, "error"), "Exception")
        ELSE IF ~listing.sources THEN Raise(set_status(m1, "error"), "Exception")
        ELSE Return(m1, "None")

\* sync_to_sparv raising for a failed copy of the config without set_status
sync_to_sparv_ConfigFailureKept(m, fail) ==
    LET m1 == Call(set_status(m, "syncing_corpus"), "ssh", "mkdir")
        m2 == Call(m1, "storage", "download_dir")
        m3 == Call(m2, "rsync", "config")
        m4 == Call(m3, "rsync", "source")
    IN  CASE fail = 1 -> Raise(set_status(m1, "error"), "Exception")
          [] fail = 2 -> Raise(set_status(m2, "error"), "Exception")
          [] fail = 3 -> Raise(m3, "Exception")
          [] fail = 4 -> Raise(set_status(m4, "error"), "Exception")
          [] OTHER    -> Return(set_status(m4, "waiting"), "None")

\* Job.sync_to_sparv; fail is the step that fails (0: none)
sync_to_sparv(m, fail) ==
    LET m1 == Call(set_status(m, "syncing_corpus"), "ssh", "mkdir")
        m2 == Call(m1, "storage", "download_dir")
        m3 == Call(m2, "rsync", "config")
        m4 == Call(m3, "rsync", "source")
    IN  CASE fail = 1 -> Raise(set_status(m1, "error"), "Exception")
          [] fail = 2 -> Raise(set_status(m2, "error"), "Exception")
          [] fail = 3 -> Raise(set_status(m3, "error"), "Exception")
          [] fail = 4 -> Raise(set_status(m4, "error"), "Exception")
          [] OTHER    -> Return(set_status(m4, "waiting"), "None")

\* Job.run_sparv; p is the answer of the run script
run_sparv(m, now, p) ==
    LET m1 == Call([m EXCEPT !.job.started = now], "ssh", "run")
    IN  IF p.returncode # 0
        THEN Raise(set_status(reset_time(m1), "error"), "JobError")
        ELSE IF p.stdout = None
             THEN Raise(m1, "ValueError")
             ELSE Return(set_status(set_pid(m1, p.stdout), "annotating"), "None")

\* the install that install_korp appends: "if self.install_scrambled"
InstallVariant(install_scrambled) ==
    IF install_scrambled = 1 THEN "cwb:install_corpus_scrambled" ELSE "cwb:install_corpus"

\* Job.install_korp; the list of app.config is appended to in place, and the
\* command sent has the whole list
install_korp(m, now, p) ==
    LET m0 == [m EXCEPT !.sparv_installs = Append(@, InstallVariant(m.job.install_scrambled)),
                        !.job.started = now]
        m1 == CallWith(m0, "ssh", "run", [installs |-> m0.sparv_installs])
        m2 == [m1 EXCEPT !.job.installed_korp = TRUE]
    IN  IF p.returncode # 0
        THEN Raise(set_status(reset_time(m1), "error"), "JobError")
        ELSE IF p.stdout = None
             THEN Raise(m2, "ValueError")
             ELSE Return(set_status(set_pid(m2, p.stdout), "installing"), "None")

\* abort_sparv with "waiting_install" forgotten in the test for a queued job
abort_sparv_OnlyWaiting(m, p) ==
    IF m.job.status = "waiting"
    THEN Return(set_status(Call(m, "queue", "remove"), "aborted"), "None")
    ELSE IF ~is_running(m.job.status) THEN Raise(m, "ProcessNotRunning")
    ELSE IF NoPid(m.job.pid) THEN Raise(m, "ProcessNotFound")
    ELSE LET m1 == Call(m, "ssh", "kill -SIGTERM")
         IN  IF p.returncode = 0 \/ EndsWithNoSuchProcess(p.stderr)
             THEN Return(set_status(set_pid(m1, None), "aborted"), "None")
             ELSE Raise(m1, "JobError")

\* abort_sparv taking every error of kill for "no such process"
abort_sparv_AnyErrorIgnored(m, p) ==
    IF is_waiting(m.job.status)
    THEN Return(set_status(Call(m, "queue", "remove"), "aborted"), "None")
    ELSE IF ~is_running(m.job.status) THEN Raise(m, "ProcessNotRunning")
    ELSE IF NoPid(m.job.pid) THEN Raise(m, "ProcessNotFound")
    ELSE Return(set_status(set_pid(Call(m, "ssh", "kill -SIGTERM"), None), "aborted"),
                "None")

\* abort_sparv without the test for a recorded pid
abort_sparv_NoPidCheck(m, p) ==
    IF is_waiting(m.job.status)
    THEN Return(set_status(Call(m, "queue", "remove"), "aborted"), "None")
    ELSE IF ~is_running(m.job.status) THEN Raise(m, "ProcessNotRunning")
    ELSE LET m1 == Call(m, "ssh", "kill -SIGTERM")
         IN  IF p.returncode = 0 \/ EndsWithNoSuchProcess(p.stderr)
             THEN Return(set_status(set_pid(m1, None), "aborted"), "None")
             ELSE Raise(m1, "JobError")

\* Job.abort_sparv; p is the answer of kill -SIGTERM
abort_sparv(m, p) ==
    IF is_waiting(m.job.status)
    THEN Return(set_status(Call(m, "queue", "remove"), "aborted"), "None")
    ELSE IF ~is_running(m.job.status) THEN Raise(m, "ProcessNotRunning")
    ELSE IF NoPid(m.job.pid) THEN Raise(m, "ProcessNotFound")
    ELSE LET m1 == Call(m, "ssh", "kill -SIGTERM")
         IN  IF p.returncode = 0
             THEN Return(set_status(set_pid(m1, None), "aborted"), "None")
             ELSE IF EndsWithNoSuchProcess(p.stderr)
                  THEN Return(set_status(set_pid(m1, None), "aborted"), "None")
                  ELSE Raise(m1, "JobError")

\* remove_from_sparv if it let ProcessNotRunning through
remove_from_sparv_NotRunningRaised(m, p, stderr) ==
    LET m1 == abort_sparv(m, p)
    IN  IF m1.result # "None" THEN m1
        ELSE Return(Call([m1 EXCEPT !.result = "running"], "ssh", "rm -rf"), "None")

\* Job.remove_from_sparv; p is the answer of kill -SIGTERM, stderr: whether
\* rm -rf wrote to stderr, which is logged
remove_from_sparv(m, p, stderr) ==
    LET m1 == abort_sparv(m, p)
    IN  IF m1.result \notin {"None", "ProcessNotRunning"} THEN m1
        ELSE Return(Call([m1 EXCEPT !.result = "running"], "ssh", "rm -rf"), "None")

\* ProcessEnded with storage.local not looked at
ProcessEnded_LocalIgnored(m, local) ==
    IF m.job.progress_output = "100%"
    THEN IF m.job.status = "annotating"
         THEN set_status(m, "done_annotating")
         ELSE IF m.job.status = "installing"
              THEN set_status(m, "done_installing")
              ELSE m
    ELSE set_status(m, "error")

\* ProcessEnded with the error status kept for an output that holds errors
ProcessEnded_ErrorOnlyOnErrors(m, local) ==
    IF m.job.progress_output = "100%"
    THEN IF m.job.status = "annotating"
         THEN IF local THEN set_status(m, "done_syncing")
                       ELSE set_status(m, "done_annotating")
         ELSE IF m.job.status = "installing"
              THEN set_status(m, "done_installing")
              ELSE m
    ELSE IF m.ret[2] # <<>> THEN set_status(m, "error") ELSE m

\* the end of a process if an output read to 100% revived a failed job
ProcessEnded_ErrorRevived(m, local) ==
    IF m.job.progress_output = "100%"
    THEN IF m.job.status \in {"annotating", "error"}
         THEN IF local THEN set_status(m, "done_syncing")
                       ELSE set_status(m, "done_annotating")
         ELSE IF m.job.status = "installing"
              THEN set_status(m, "done_installing")
              ELSE m
    ELSE set_status(m, "error")

\* the second half of Job.process_running: the status after the process ended
ProcessEnded(m, local) ==
    IF m.job.progress_output = "100%"
    THEN IF m.job.status = "annotating"
         THEN IF local THEN set_status(m, "done_syncing")
                       ELSE set_status(m, "done_annotating")
         ELSE IF m.job.status = "installing"
              THEN set_status(m, "done_installing")
              ELSE m
    ELSE set_status(m, "error")

\* process_running without the early return for a live process
process_running_NoEarlyReturn(m, p, output, local) ==
    LET m1 == IF ~NoPid(m.job.pid)
              THEN set_pid(Call(m, "ssh", "kill -0"), None)
              ELSE m
        m2 == get_output(m1, output)
    IN  IF m2.result # "running" THEN m2
        ELSE Return(ProcessEnded(m2, local), "False")

\* process_running that has nothing to do for a job without a pid
process_running_IdleWithoutPid(m, p, output, local) ==
    IF NoPid(m.job.pid) THEN Return(m, "False")
    ELSE IF p.returncode = 0
         THEN Return(Call(m, "ssh", "kill -0"), "True")
         ELSE LET m2 == get_output(set_pid(Call(m, "ssh", "kill -0"), None), output)
              IN  IF m2.result # "running" THEN m2
                  ELSE Return(ProcessEnded(m2, local), "False")

\* Job.process_running; p is the answer of kill -0, output the nohup file
process_running(m, p, output, local) ==
    IF ~NoPid(m.job.pid) /\ p.returncode = 0
    THEN Return(Call(m, "ssh", "kill -0"), "True")
    ELSE LET m1 == IF ~NoPid(m.job.pid)
                   THEN set_pid(Call(m, "ssh", "kill -0"), None)
                   ELSE m
             m2 == get_output(m1, output)
         IN  IF m2.result # "running" THEN m2
             ELSE Return(ProcessEnded(m2, local), "False")

\* Job.sync_results; failed is the set of the steps that fail
sync_results(m, failed) ==
    LET m1 == Call(m, "rsync", "export")
        m2 == Call(m1, "rsync", "@text")
        m3 == Call(m2, "storage", "upload_dir export")
        m4 == Call(m3, "storage", "upload_dir workdir")
    IN  IF "rsync export" \in failed
        THEN Return(set_status(m1, "error"), "Response500")
        ELSE IF "upload export" \in failed
             THEN Raise(set_status(m3, "error"), "Exception")
             ELSE IF "upload workdir" \in failed
                  THEN Raise(set_status(m4, "error"), "Exception")
                  ELSE Return(set_status(m4, "done_syncing"), "None")

SyncResultsSteps == {"rsync export", "rsync @text", "upload export", "upload workdir"}

Max(a, b) == IF a >= b THEN a ELSE b

\* Job.set_latest_seconds_taken
set_latest_seconds_taken(m, seconds_taken) ==
    IF m.job.latest_seconds_taken # seconds_taken
    THEN save([m EXCEPT !.job.latest_seconds_taken = seconds_taken])
    ELSE m

\* seconds_taken without the floor latest_seconds_taken for a running job
seconds_taken_NoFloor(m, now) ==
    LET j == m.job
    IN  IF j.started = None \/ is_waiting(j.status)
        THEN Return(set_latest_seconds_taken(m, 0), 0)
        ELSE IF is_running(j.status)
        THEN Return(set_latest_seconds_taken(m, now - j.started), now - j.started)
        ELSE IF j.sparv_done # None
        THEN LET seconds == Max(j.latest_seconds_taken, j.sparv_done - j.started)
             IN  Return(set_latest_seconds_taken(
                            [m EXCEPT !.job.done = j.started + seconds], seconds),
                        seconds)
        ELSE Return(set_latest_seconds_taken(m, 0), 0)

\* Job.seconds_taken; now is the clock, read for a running job.  Times are
\* whole seconds
seconds_taken(m, now) ==
    LET j == m.job
    IN  IF j.started = None \/ is_waiting(j.status)
        THEN Return(set_latest_seconds_taken(m, 0), 0)
        ELSE IF is_running(j.status)
        THEN LET seconds == Max(j.latest_seconds_taken, now - j.started)
             IN  Return(set_latest_seconds_taken(m, seconds), seconds)
        ELSE IF j.sparv_done # None
        THEN LET seconds == Max(j.latest_seconds_taken, j.sparv_done - j.started)
             IN  Return(set_latest_seconds_taken(
                            [m EXCEPT !.job.done = j.started + seconds], seconds),
                        seconds)
        ELSE Return(set_latest_seconds_taken(m, 0), 0)

\* Job.clean; stderr: whether the remote command wrote to stderr
clean(m, stderr) ==
    LET m1 == Call(m, "ssh", "clean --all")
    IN  IF stderr THEN Raise(m1, "Exception") ELSE Return(m1, "None")

\* Job.clean_export
clean_export(m, stderr) ==
    LET m1 == Call(m, "ssh", "clean --export")
    IN  IF stderr THEN Raise(m1, "Exception") ELSE Return(m1, "None")

\* get_job: the job of the cache, or a new one
get_job(stored, install_scrambled) ==
    IF stored # NoJob THEN load_from_str(stored, install_scrambled)
    ELSE Job([install_scrambled |-> install_scrambled])

\* Job.set_install_scrambled
set_install_scrambled(m, scramble) ==
    Return(save([m EXCEPT !.job.install_scrambled = scramble]), "None")

\* g.cache.remove_job inside its try: an error is logged and the entry stays
RemoveFromCache(m, cache_error) ==
    LET m1 == Call(m, "cache", "remove_job")
    IN  IF cache_error THEN m1 ELSE [m1 EXCEPT !.cache = NoJob]

\* filename.unlink(missing_ok=True)
Unlink(m) == [Call(m, "file", "unlink") EXCEPT !.backup = NoJob]

\* Job.remove if it passed over every error of abort_sparv
remove_AbortErrorsIgnored(m, abort, p, cache_error) ==
    LET m1 == IF m.job.status = "annotating" /\ abort THEN abort_sparv(m, p) ELSE m
    IN  IF m.job.status = "annotating" /\ ~abort THEN Raise(m, "JobError")
        ELSE Return(Unlink(RemoveFromCache([m1 EXCEPT !.result = "running"],
                                           cache_error)), "None")

\* Job.remove; p is the answer of kill -SIGTERM when abort_sparv sends it
remove(m, abort, p, cache_error) ==
    LET m1 == IF m.job.status = "annotating" /\ abort THEN abort_sparv(m, p) ELSE m
    IN  IF m.job.status = "annotating" /\ ~abort THEN Raise(m, "JobError")
        ELSE IF m1.result \notin {"running", "None", "ProcessNotRunning"} THEN m1
        ELSE Return(Unlink(RemoveFromCache([m1 EXCEPT !.result = "running"],
                                           cache_error)), "None")

\* Job.progress if it gave the parsed progress as it is
progress_NoCap(j) ==
    IF has_process_output(j.status) THEN j.progress_output
    ELSE IF is_active(j.status) THEN "0%"
    ELSE "None"

\* Job.progress: what the progress view shows
progress(j) ==
    IF has_process_output(j.status)
    THEN IF j.progress_output = "100%" /\ ~is_done_processing(j.status)
         THEN "99%"
         ELSE j.progress_output
    ELSE IF is_active(j.status) THEN "0%"
    ELSE "None"

(***************************************************************************)
(* The state machine                                                       *)
(***************************************************************************)
NoInput == [none |-> TRUE]

\* the answer of a remote command that was not sent
NoAnswer == [returncode |-> None, stderr |-> ""]

Init ==
    /\ job = NewJob
    /\ cache = NoJob
    /\ backup = NoJob
    /\ alive = {}
    /\ storage_local \in BOOLEAN
    /\ sparv_installs = <<>>
    /\ last = [op |-> "init", input |-> NoInput, result |-> "None"]
    /\ trace = <<>>

\* a save of these events stored the status done_installing
InstallCompleted(events) ==
    \E i \in 1..Len(events) :
        events[i].e = "save" /\ events[i].rec.status = "done_installing"

\* `last` after an operation; a specification that starts with last.installed
\* keeps in it whether an install of the corpus has completed so far
Noted(rec, events) ==
    IF "installed" \in DOMAIN last
    THEN rec @@ [installed |-> last.installed \/ InstallCompleted(events)]
    ELSE rec

\* what an operation that ended as m leaves behind
Finish(op, input, m) ==
    /\ job' = m.job
    /\ cache' = m.cache
    /\ backup' = m.backup
    /\ sparv_installs' = m.sparv_installs
    /\ trace' = m.trace
    /\ last' = Noted([op |-> op, input |-> input, result |-> m.result], m.trace)

\* get_job called with install_scrambled; an exception leaves no new Job
Loaded(install_scrambled) ==
    LET j == get_job(cache, install_scrambled)
    IN  /\ job' = IF "raises" \in DOMAIN j THEN job ELSE j
        /\ last' = Noted([op |-> "get_job",
                           input |-> [install_scrambled |-> install_scrambled],
                           result |-> IF "raises" \in DOMAIN j THEN j.raises ELSE "None"],
                          <<>>)
        /\ trace' = <<>>
        /\ UNCHANGED <<cache, backup, alive, storage_local, sparv_installs>>

GetJob == Loaded(None)

CheckRequirements ==
    \E listing \in Listings :
        /\ Finish("check_requirements", [listing |-> listing],
                  check_requirements(Begin, listing))
        /\ UNCHANGED <<alive, storage_local>>

\* the steps of sync_to_sparv that can fail for a corpus of these contents: a
\* config file that is missing cannot be copied, nor sources that are missing
SyncFailures(contents) ==
    IF ~contents.config THEN 1..3
    ELSE IF ~contents.sources THEN 1..4
    ELSE 0..4

SyncToSparv ==
    \E contents \in Contents :
        \E fail \in SyncFailures(contents) :
            /\ Finish("sync_to_sparv", [fail |-> fail, contents |-> contents],
                      sync_to_sparv(Begin, fail))
            /\ UNCHANGED <<alive, storage_local>>

\* the answers the run script can give, and the process it leaves running
LaunchAnswers == {LaunchFailed, LaunchNoPid} \cup {Launched(pid) : pid \in Pids \ alive}

Started(p) ==
    alive' = IF p.returncode = 0 /\ p.stdout # None THEN alive \cup {p.stdout} ELSE alive

\* run_sparv when the clock reads one of these times
RunAt(times) ==
    \E now \in times, p \in LaunchAnswers :
        /\ Finish("run_sparv", [now |-> now, p |-> p], run_sparv(Begin, now, p))
        /\ Started(p)
        /\ UNCHANGED storage_local

RunSparv == RunAt(Clock)

\* install_korp, by a backend process that has called it `earlier` times
InstalledAfter(earlier) ==
    \E now \in Clock, p \in LaunchAnswers :
        /\ Len(sparv_installs) \in earlier
        /\ Finish("install_korp", [now |-> now, p |-> p], install_korp(Begin, now, p))
        /\ Started(p)
        /\ UNCHANGED storage_local

\* the first install of a backend process: its list of installs is as configured
InstallKorp == InstalledAfter({0})

\* the install route queues the job: set_status(Status.waiting_install)
QueueInstall ==
    /\ Finish("set_status", [status |-> "waiting_install"],
              Return(set_status(Begin, "waiting_install"), "None"))
    /\ UNCHANGED <<alive, storage_local>>

AbortSparv ==
    \E p \in KillAnswers(job.pid), dies \in BOOLEAN :
        LET m == abort_sparv(Begin, p)
            sent == \E i \in 1..Len(m.trace) : m.trace[i].cmd = "kill -SIGTERM"
        IN  /\ sent \/ (~dies /\ p.returncode = 255)
            /\ dies => sent /\ p.returncode = 0
            /\ Finish("abort_sparv", [p |-> IF sent THEN p ELSE NoAnswer], m)
            /\ alive' = IF dies THEN alive \ {job.pid} ELSE alive
            /\ UNCHANGED storage_local

\* a poll that finds one of these contents in the nohup file
Polled(outputs) ==
    \E p \in ProbeAnswers(job.pid), output \in outputs :
      \E m \in {process_running(Begin, p, output, storage_local)} :
        LET read == \E i \in 1..Len(m.trace) : m.trace[i].cmd = "cat nohupfile"
        IN  /\ NoPid(job.pid) => p.returncode = 1
            /\ ~read => output = <<>>
            /\ Finish("process_running",
                      [p |-> IF NoPid(job.pid) THEN NoAnswer ELSE p,
                       errors |-> m.ret # <<>> /\ m.ret[2] # <<>>], m)
            /\ UNCHANGED <<alive, storage_local>>

ProcessRunning == Polled(Outputs)

SyncResults ==
    \E failed \in {{}} \cup {{step} : step \in SyncResultsSteps} :
        /\ Finish("sync_results", [failed |-> failed], sync_results(Begin, failed))
        /\ UNCHANGED <<alive, storage_local>>

Clean ==
    \E stderr \in BOOLEAN :
        /\ Finish("clean", [stderr |-> stderr], clean(Begin, stderr))
        /\ UNCHANGED <<alive, storage_local>>

CleanExport ==
    \E stderr \in BOOLEAN :
        /\ Finish("clean_export", [stderr |-> stderr], clean_export(Begin, stderr))
        /\ UNCHANGED <<alive, storage_local>>

\* a process on the Sparv server ends by itself
ProcessExits ==
    \E pid \in alive :
        /\ alive' = alive \ {pid}
        /\ last' = Noted([op |-> "process_exits", input |-> NoInput, result |-> "None"],
                          <<>>)
        /\ trace' = <<>>
        /\ UNCHANGED <<job, cache, backup, storage_local, sparv_installs>>

Next ==
    \/ GetJob
    \/ CheckRequirements
    \/ SyncToSparv
    \/ RunSparv
    \/ InstallKorp
    \/ QueueInstall
    \/ AbortSparv
    \/ ProcessRunning
    \/ SyncResults
    \/ Clean
    \/ CleanExport
    \/ ProcessExits

Spec == Init /\ [][Next]_vars

(***************************************************************************)
(* The two stores.  A second specification follows the record through the  *)
(* cache and the backup file: jobs are started and polled as above, and    *)
(* the record is also removed, loaded with an argument of the caller, lost *)
(* from the cache, or left by a version that stored more fields.           *)
(***************************************************************************)
\* the values of install_scrambled that are not None: False, True
Scrambled == {0, 1}

\* fields of a stored record that are no arguments of Job.__init__
ObsoleteFields == {[priority |-> 1, sparv_done |-> 0]}

\* the contents of the nohup file that a poll of this specification reads
StoreOutputs == {<<>>, <<Tagged("PROGRESS", "100%")>>}

StorePoll == Polled(StoreOutputs)

HasObsolete(stored) == stored # NoJob /\ ~(DOMAIN stored \subseteq KnownArgs)

\* the stored record without the fields that are no arguments
WithoutObsolete(stored) == [name \in DOMAIN stored \cap KnownArgs |-> stored[name]]

GetJobWith == \E install_scrambled \in {None} \cup Scrambled : Loaded(install_scrambled)

SetInstallScrambled ==
    \E scramble \in Scrambled :
        /\ Finish("set_install_scrambled", [scramble |-> scramble],
                  set_install_scrambled(Begin, scramble))
        /\ UNCHANGED <<alive, storage_local>>

Remove ==
    \E abort \in BOOLEAN, cache_error \in BOOLEAN, p \in KillAnswers(job.pid),
       dies \in BOOLEAN :
        LET m == remove(Begin, abort, p, cache_error)
            sent == \E i \in 1..Len(m.trace) : m.trace[i].cmd = "kill -SIGTERM"
        IN  /\ sent \/ (~dies /\ p.returncode = 255)
            /\ dies => sent /\ p.returncode = 0
            /\ Finish("remove", [abort |-> abort, cache_error |-> cache_error,
                                 p |-> IF sent THEN p ELSE NoAnswer], m)
            /\ alive' = IF dies THEN alive \ {job.pid} ELSE alive
            /\ UNCHANGED storage_local

\* the cache is restarted and holds no entry any more
CacheLost ==
    /\ cache # NoJob
    /\ cache' = NoJob
    /\ last' = [op |-> "cache_lost", input |-> NoInput, result |-> "None"]
    /\ trace' = <<>>
    /\ UNCHANGED <<job, backup, alive, storage_local, sparv_installs>>

\* the stored record is one that a version with more fields wrote
OldVersion ==
    \E more \in ObsoleteFields :
        /\ cache # NoJob /\ ~HasObsolete(cache)
        /\ cache' = cache @@ more
        /\ backup' = cache @@ more
        /\ last' = [op |-> "old_version", input |-> NoInput, result |-> "None"]
        /\ trace' = <<>>
        /\ UNCHANGED <<job, alive, storage_local, sparv_installs>>

StoreNext ==
    \/ GetJobWith
    \/ SetInstallScrambled
    \/ Remove
    \/ CacheLost
    \/ OldVersion
    \/ RunSparv
    \/ InstallKorp
    \/ StorePoll
    \/ ProcessExits

\* the results are not kept locally
InitRemote == Init /\ ~storage_local

StoreSpec == InitRemote /\ [][StoreNext]_vars

(***************************************************************************)
(* The time.  A third specification lets the clock read any of 0..MaxTime  *)
(* at every reading, in no order, and follows a job whose annotation is    *)
(* started, polled, loaded again, and whose seconds_taken is read.         *)
(***************************************************************************)
Times == 0..MaxTime

\* the contents of the nohup file that a poll of this specification reads:
\* nothing, or a run that ended after one second
TimeOutputs == {<<>>, <<Tagged("PROGRESS", "100%"), Real(1)>>}

TimedRunSparv == RunAt(Times)

TimePoll == Polled(TimeOutputs)

SecondsTaken ==
    \E now \in Times :
        LET read == job.started # None /\ is_running(job.status)
        IN  /\ ~read => now = 0
            /\ Finish("seconds_taken", [now |-> IF read THEN now ELSE None],
                      seconds_taken(Begin, now))
            /\ UNCHANGED <<alive, storage_local>>

TimeNext ==
    \/ GetJob
    \/ TimedRunSparv
    \/ TimePoll
    \/ SecondsTaken
    \/ ProcessExits

TimeSpec == InitRemote /\ [][TimeNext]_vars

(***************************************************************************)
(* The backend crashing in the start of a process.  The backend makes some *)
(* of the calls and saves of run_sparv or install_korp and stops; the Job  *)
(* object and the list of installs die with the process, the stores and    *)
(* the process on the Sparv server stay, and the backend that is started   *)
(* next loads the job from the store.                                      *)
(***************************************************************************)
\* run_sparv and install_korp make three calls and saves when they succeed:
\* the launch, set_pid, set_status
CrashPoints == {0, 1, 2}

\* what a start that ended in a crash as m leaves behind
Crashed(op, input, m) ==
    LET j == get_job(m.cache, None)
        launched == \E i \in 1..Len(m.trace) : m.trace[i].cmd = "run"
    IN  /\ m.result = "crashed"
        /\ ~launched => input.p = LaunchFailed
        /\ job' = j
        /\ cache' = m.cache
        /\ backup' = m.backup
        /\ sparv_installs' = <<>>
        /\ trace' = m.trace
        /\ last' = Noted([op |-> op,
                           input |-> IF launched THEN input
                                     ELSE [input EXCEPT !.p = NoAnswer],
                           result |-> m.result], m.trace)
        /\ alive' = IF launched /\ input.p.returncode = 0 /\ input.p.stdout # None
                    THEN alive \cup {input.p.stdout}
                    ELSE alive
        /\ UNCHANGED storage_local

CrashedRunSparv ==
    \E now \in Clock, p \in LaunchAnswers, steps \in CrashPoints :
        Crashed("run_sparv", [now |-> now, p |-> p],
                run_sparv(BeginUntil(steps), now, p))

CrashedInstallKorp ==
    \E now \in Clock, p \in LaunchAnswers, steps \in CrashPoints :
        Crashed("install_korp", [now |-> now, p |-> p],
                install_korp(BeginUntil(steps), now, p))

CrashNext ==
    \/ GetJob
    \/ RunSparv
    \/ QueueInstall
    \/ InstallKorp
    \/ CrashedRunSparv
    \/ CrashedInstallKorp
    \/ StorePoll
    \/ ProcessExits

CrashSpec == InitRemote /\ [][CrashNext]_vars

(***************************************************************************)
(* The installs.  A backend process installs the corpus up to MaxInstalls  *)
(* times, scrambled or not, and removes it from the Sparv server;          *)
(* last.installed tells whether an install of the corpus has completed.    *)
(***************************************************************************)
InitInstalls ==
    /\ job = NewJob
    /\ cache = NoJob
    /\ backup = NoJob
    /\ alive = {}
    /\ storage_local = FALSE
    /\ sparv_installs = <<>>
    /\ last = [op |-> "init", input |-> NoInput, result |-> "None", installed |-> FALSE]
    /\ trace = <<>>

InstallAgain == InstalledAfter(0..(MaxInstalls - 1))

RemoveFromSparv ==
    \E p \in KillAnswers(job.pid), dies \in BOOLEAN, stderr \in BOOLEAN :
        LET m == remove_from_sparv(Begin, p, stderr)
            sent == \E i \in 1..Len(m.trace) : m.trace[i].cmd = "kill -SIGTERM"
            removed == \E i \in 1..Len(m.trace) : m.trace[i].cmd = "rm -rf"
        IN  /\ sent \/ (~dies /\ p.returncode = 255)
            /\ dies => sent /\ p.returncode = 0
            /\ stderr => removed
            /\ Finish("remove_from_sparv",
                      [p |-> IF sent THEN p ELSE NoAnswer, stderr |-> stderr], m)
            /\ alive' = IF dies THEN alive \ {job.pid} ELSE alive
            /\ UNCHANGED storage_local

InstallNext ==
    \/ SetInstallScrambled
    \/ QueueInstall
    \/ InstallAgain
    \/ StorePoll
    \/ RemoveFromSparv
    \/ ProcessExits

InstallSpec == InitInstalls /\ [][InstallNext]_vars

(***************************************************************************)
(* Two requests on the same corpus.  Each of the two handlers has its own  *)
(* Job object, loaded from the store by get_job; here job holds the two    *)
(* objects, and cache and backup are the one stored record.  The handlers  *)
(* take turns operation by operation, and nothing makes a handler load the *)
(* job again before its next operation.                                    *)
(***************************************************************************)
Handlers == {"first", "second"}

InitRace ==
    /\ job = [handler \in Handlers |-> NewJob]
    /\ cache = NoJob
    /\ backup = NoJob
    /\ alive = {}
    /\ storage_local = FALSE
    /\ sparv_installs = <<>>
    /\ last = [op |-> "init", input |-> NoInput, result |-> "None"]
    /\ trace = <<>>

\* an operation on the Job object of a handler
BeginBy(handler) == [Begin EXCEPT !.job = job[handler]]

FinishBy(handler, op, input, m) ==
    /\ job' = [job EXCEPT ![handler] = m.job]
    /\ cache' = m.cache
    /\ backup' = m.backup
    /\ sparv_installs' = m.sparv_installs
    /\ trace' = m.trace
    /\ last' = [op |-> op, input |-> [handler |-> handler] @@ input, result |-> m.result]

LoadedBy ==
    \E handler \in Handlers :
        LET j == get_job(cache, None)
        IN  /\ "raises" \notin DOMAIN j
            /\ job' = [job EXCEPT ![handler] = j]
            /\ last' = [op |-> "get_job", input |-> [handler |-> handler], result |-> "None"]
            /\ trace' = <<>>
            /\ UNCHANGED <<cache, backup, alive, storage_local, sparv_installs>>

RunSparvBy ==
    \E handler \in Handlers, now \in Clock, p \in LaunchAnswers :
        /\ FinishBy(handler, "run_sparv", [now |-> now, p |-> p],
                    run_sparv(BeginBy(handler), now, p))
        /\ Started(p)
        /\ UNCHANGED storage_local

AbortSparvBy ==
    \E handler \in Handlers :
        \E p \in KillAnswers(job[handler].pid), dies \in BOOLEAN :
            LET m == abort_sparv(BeginBy(handler), p)
                sent == \E i \in 1..Len(m.trace) : m.trace[i].cmd = "kill -SIGTERM"
            IN  /\ sent \/ (~dies /\ p.returncode = 255)
                /\ dies => sent /\ p.returncode = 0
                /\ FinishBy(handler, "abort_sparv", [p |-> IF sent THEN p ELSE NoAnswer], m)
                /\ alive' = IF dies THEN alive \ {job[handler].pid} ELSE alive
                /\ UNCHANGED storage_local

ProcessRunningBy ==
    \E handler \in Handlers :
        \E p \in ProbeAnswers(job[handler].pid), output \in StoreOutputs :
            LET m == process_running(BeginBy(handler), p, output, storage_local)
                read == \E i \in 1..Len(m.trace) : m.trace[i].cmd = "cat nohupfile"
            IN  /\ NoPid(job[handler].pid) => p.returncode = 1
                /\ ~read => output = <<>>
                /\ FinishBy(handler, "process_running",
                            [p |-> IF NoPid(job[handler].pid) THEN NoAnswer ELSE p], m)
                /\ UNCHANGED <<alive, storage_local>>

RaceNext ==
    \/ LoadedBy
    \/ RunSparvBy
    \/ AbortSparvBy
    \/ ProcessRunningBy
    \/ ProcessExits

RaceSpec == InitRace /\ [][RaceNext]_vars

(***************************************************************************)
(* Starting again.  The Sparv server has one pid more than in the other    *)
(* specifications, so that a process can be launched while the process of  *)
(* an earlier start is alive.                                              *)
(***************************************************************************)
RestartAnswers ==
    {LaunchFailed, LaunchNoPid}
    \cup {Launched(pid) : pid \in (1..(MaxPid + 1)) \ alive}

RunSparvAgain ==
    \E now \in Clock, p \in RestartAnswers :
        /\ Finish("run_sparv", [now |-> now, p |-> p], run_sparv(Begin, now, p))
        /\ Started(p)
        /\ UNCHANGED storage_local

InstallKorpAgain ==
    \E now \in Clock, p \in RestartAnswers :
        /\ Len(sparv_installs) < MaxInstalls
        /\ Finish("install_korp", [now |-> now, p |-> p], install_korp(Begin, now, p))
        /\ Started(p)
        /\ UNCHANGED storage_local

RestartNext ==
    \/ GetJob
    \/ RunSparvAgain
    \/ InstallKorpAgain
    \/ StorePoll
    \/ ProcessExits

RestartSpec == InitRemote /\ [][RestartNext]_vars

(***************************************************************************)
(* Polling again and again.  The operations of the corpus come one after   *)
(* the other, and a process is started only for a job that is not running. *)
(* A poll can be cut short by a crash of the backend, after which the job  *)
(* is loaded from the store; the poll that is not cut short is fair.       *)
(***************************************************************************)
\* process_running makes four calls and saves when the process is gone: the
\* probe, set_pid, the read of the output, set_status
PollCrashPoints == {0, 1, 2, 3}

\* the polls read what the polls of the third specification read: nothing,
\* or a run that ended after one second
LivePoll == Polled(TimeOutputs)

StartWhenIdle ==
    /\ ~is_running(job.status)
    /\ RunSparv \/ InstallKorp

CrashedPoll ==
    \E p \in ProbeAnswers(job.pid), output \in TimeOutputs, steps \in PollCrashPoints :
        LET m == process_running(BeginUntil(steps), p, output, storage_local)
            read == \E i \in 1..Len(m.trace) : m.trace[i].cmd = "cat nohupfile"
        IN  /\ m.result = "crashed"
            /\ NoPid(job.pid) => p.returncode = 1
            /\ ~read => output = <<>>
            /\ job' = get_job(m.cache, None)
            /\ cache' = m.cache
            /\ backup' = m.backup
            /\ sparv_installs' = <<>>
            /\ trace' = m.trace
            /\ last' = [op |-> "process_running", input |-> NoInput, result |-> m.result]
            /\ UNCHANGED <<alive, storage_local>>

LiveNext ==
    \/ StartWhenIdle
    \/ LivePoll
    \/ CrashedPoll
    \/ ProcessExits

LiveSpec == InitRemote /\ [][LiveNext]_vars /\ WF_vars(LivePoll)

(***************************************************************************)
(* Removing a job that a crash has left behind: an annotation is started,  *)
(* polled, the poll may be cut short by a crash, and the job is removed    *)
(* with or without abort.                                                  *)
(***************************************************************************)
RemoveNext ==
    \/ GetJob
    \/ RunSparv
    \/ TimePoll
    \/ CrashedPoll
    \/ Remove
    \/ ProcessExits

RemoveSpec == InitRemote /\ [][RemoveNext]_vars

(***************************************************************************)
(* The parser.  get_output is called on the job as the start of a process  *)
(* left it, for every nohup file of up to MaxLines of the lines below;     *)
(* `last` keeps the file, whether it is the file that the call before      *)
(* parsed, and what the call returned or raised.                           *)
(***************************************************************************)
ParserLines ==
    {Tagged("PROGRESS", "50%"), Tagged("WARNING", "w"), Real(1), Text("x"),
     Text("Nothing to be done.")}

ParserOutputs == UNION {[1..n -> ParserLines] : n \in 0..MaxLines}

GetOutput ==
    \E output \in ParserOutputs :
        LET m == get_output(Begin, output)
            raised == m.result # "running"
        IN  /\ Finish("get_output",
                      [output |-> output,
                       again |-> last.op = "get_output" /\ last.input.output = output],
                      [m EXCEPT !.result = [raises |-> IF raised THEN m.result ELSE "",
                                            ret |-> m.ret]])
            /\ UNCHANGED <<alive, storage_local>>

ParserNext ==
    \/ RunSparv
    \/ GetOutput

ParserSpec == InitRemote /\ [][ParserNext]_vars

(***************************************************************************)
(* The workers.  Here job, cache and backup hold one job for each corpus;  *)
(* the processes on the Sparv server and the list of installs are shared.  *)
(* A corpus is queued by its caller, and the queue starts the waiting jobs *)
(* and polls the running jobs.  What the operations send and how they end  *)
(* is not followed: last and trace stay as they are.                       *)
(***************************************************************************)
Corpora == 1..MaxCorpora

InitWorkers ==
    /\ job = [corpus \in Corpora |-> NewJob]
    /\ cache = [corpus \in Corpora |-> NoJob]
    /\ backup = [corpus \in Corpora |-> NoJob]
    /\ alive = {}
    /\ storage_local = FALSE
    /\ sparv_installs = <<>>
    /\ last = [op |-> "init", input |-> NoInput, result |-> "None"]
    /\ trace = <<>>

\* an operation on the job of a corpus
BeginOf(corpus) ==
    [Begin EXCEPT !.job = job[corpus], !.cache = cache[corpus],
                  !.backup = backup[corpus]]

FinishOf(corpus, m) ==
    /\ job' = [job EXCEPT ![corpus] = m.job]
    /\ cache' = [cache EXCEPT ![corpus] = m.cache]
    /\ backup' = [backup EXCEPT ![corpus] = m.backup]
    /\ sparv_installs' = m.sparv_installs
    /\ UNCHANGED <<last, trace>>

\* the jobs that take a worker
Running == {corpus \in Corpora : is_running(job[corpus].status)}

\* a corpus that is not in the queue is queued for annotation or for install
Queue ==
    \E corpus \in Corpora, status \in {"waiting", "waiting_install"} :
        /\ ~is_active(job[corpus].status)
        /\ FinishOf(corpus,
                    Return(set_status(BeginOf(corpus), status), "None"))
        /\ UNCHANGED <<alive, storage_local>>

\* the queue starts a waiting job when fewer than SPARV_WORKERS jobs run
StartWaiting ==
    \E corpus \in Corpora, now \in Clock, p \in LaunchAnswers :
        /\ is_waiting(job[corpus].status)
        /\ Cardinality(Running) < SPARV_WORKERS
        /\ IF job[corpus].status = "waiting"
           THEN FinishOf(corpus, run_sparv(BeginOf(corpus), now, p))
           ELSE /\ Len(sparv_installs) < MaxInstalls
                /\ FinishOf(corpus, install_korp(BeginOf(corpus), now, p))
        /\ Started(p)
        /\ UNCHANGED storage_local

\* the queue polls a running job
PollJob ==
    \E corpus \in Running :
        \E p \in ProbeAnswers(job[corpus].pid), output \in StoreOutputs :
            LET m == process_running(BeginOf(corpus), p, output, storage_local)
                read == \E i \in 1..Len(m.trace) : m.trace[i].cmd = "cat nohupfile"
            IN  /\ NoPid(job[corpus].pid) => p.returncode = 1
                /\ ~read => output = <<>>
                /\ FinishOf(corpus, m)
                /\ UNCHANGED <<alive, storage_local>>

\* a process on the Sparv server ends by itself
WorkerProcessExits ==
    \E pid \in alive :
        /\ alive' = alive \ {pid}
        /\ UNCHANGED <<job, cache, backup, storage_local, sparv_installs, last, trace>>

WorkerNext ==
    \/ Queue
    \/ StartWaiting
    \/ PollJob
    \/ WorkerProcessExits

WorkerSpec == InitWorkers /\ [][WorkerNext]_vars

(***************************************************************************)
(* Notions the properties share                                            *)
(***************************************************************************)
\* the status of the stored record ("none": no record is stored)
PersistedStatus(stored) == IF stored = NoJob THEN "none" ELSE stored.status

\* the statuses persisted by the saves of a trace, in order
RECURSIVE SavedStatuses(_)
SavedStatuses(events) ==
    IF events = <<>> THEN <<>>
    ELSE IF Head(events).e = "save"
         THEN <<Head(events).rec.status>> \o SavedStatuses(Tail(events))
         ELSE SavedStatuses(Tail(events))

\* the remote commands and transfers of a trace
Sent(events, cmd) == \E i \in 1..Len(events) : events[i].cmd = cmd

IsRemote(event) == event.e \in {"ssh", "rsync", "storage"}

NoRemoteCall(events) == \A i \in 1..Len(events) : ~IsRemote(events[i])

NothingSaved(events) == \A i \in 1..Len(events) : events[i].e # "save"

(***************************************************************************)
(* C1.  In every persisted state of a job record, after any sequence of    *)
(* operations, pid is set only if the status is annotating or installing.  *)
(* Stated of the record that is stored when an operation has ended.        *)
(***************************************************************************)
C1_PidOnlyWhileRunning ==
    cache # NoJob => (cache.pid # None => is_running(cache.status))

(***************************************************************************)
(* C2.  Every change of the persisted status follows a documented          *)
(* transition and skips no intermediate: syncing_corpus is followed only   *)
(* by waiting or error; annotating is entered only from waiting and        *)
(* installing only from waiting_install; done_annotating, done_installing  *)
(* (and done_syncing when the results are local) are entered only by the   *)
(* poll from annotating/installing; sync_results reaches done_syncing only *)
(* after syncing_results has been persisted.                               *)
(***************************************************************************)
DocumentedChange(op, from, to) ==
    /\ from = "syncing_corpus" => to \in {"waiting", "error"}
    /\ to = "annotating" => from = "waiting"
    /\ to = "installing" => from = "waiting_install"
    /\ to = "done_annotating" => op = "process_running" /\ from = "annotating"
    /\ to = "done_installing" => op = "process_running" /\ from = "installing"
    /\ to = "done_syncing" =>
          \/ op = "process_running" /\ from = "annotating"
          \/ op = "sync_results" /\ from = "syncing_results"

C2_DocumentedTransitions ==
    [][LET statuses == <<PersistedStatus(cache)>> \o SavedStatuses(trace')
       IN  \A i \in 1..(Len(statuses) - 1) :
              statuses[i] # statuses[i + 1] =>
                  DocumentedChange(last'.op, statuses[i], statuses[i + 1])]_vars

(***************************************************************************)
(* C3.  Whenever an operation of the job surfaces the failure of a remote  *)
(* command or of a transfer to its caller, the persisted status is error.  *)
(***************************************************************************)
JobOperations ==
    {"sync_to_sparv", "run_sparv", "install_korp", "abort_sparv", "sync_results",
     "clean", "clean_export"}

\* how a remote failure reaches the caller: JobError, the Exception raised for
\* a failed command or transfer, the error response of sync_results
RemoteFailure == {"JobError", "Exception", "Response500"}

C3_FailurePersistedAsError ==
    (last.op \in JobOperations /\ last.result \in RemoteFailure)
        => PersistedStatus(cache) = "error"

(***************************************************************************)
(* C4.  A poll that finds the process ended and the progress at "100%"     *)
(* takes annotating to done_syncing when the storage is local and to       *)
(* done_annotating otherwise, and installing to done_installing; the pid   *)
(* is cleared.                                                             *)
(***************************************************************************)
C4_PollFinished ==
    [][(/\ last'.op = "process_running"
        /\ last'.result = "False"
        /\ is_running(job.status)
        /\ job'.progress_output = "100%")
       => /\ job'.status = IF job.status = "installing" THEN "done_installing"
                           ELSE IF storage_local THEN "done_syncing"
                           ELSE "done_annotating"
          /\ job'.pid = None
          /\ cache' = Dump(job')
          /\ backup' = Dump(job')]_vars

\* a poll cleared the pid of an annotating job and found the results remote
C4_Witness ==
    /\ last.op = "process_running"
    /\ last.result = "False"
    /\ last.input.p.returncode = 1
    /\ job.progress_output = "100%"
    /\ ~storage_local
    /\ cache.status = "done_annotating"
    /\ cache.pid = None

(***************************************************************************)
(* C5.  A poll of a running job that finds the process ended and a         *)
(* progress other than "100%" sets the persisted status to error, with or  *)
(* without errors or warnings in the output.                               *)
(***************************************************************************)
C5_PollUnfinished ==
    [][(/\ last'.op = "process_running"
        /\ last'.result = "False"
        /\ is_running(job.status)
        /\ job'.progress_output # "100%")
       => /\ job'.status = "error"
          /\ cache' = Dump(job')
          /\ backup' = Dump(job')]_vars

\* a poll set error for an output without an error line
C5_Witness ==
    /\ last.op = "process_running"
    /\ last.result = "False"
    /\ last.input.p.returncode = 1
    /\ ~last.input.errors
    /\ job.progress_output = "50%"
    /\ SavedStatuses(trace) \in {<<"annotating", "error">>, <<"installing", "error">>}
    /\ cache.status = "error"

(***************************************************************************)
(* C6.  A poll of a running job with a pid whose process answers the       *)
(* liveness probe changes neither the job nor what is stored, and does not *)
(* read the remote output.                                                 *)
(***************************************************************************)
C6_PollAlive ==
    [][(/\ last'.op = "process_running"
        /\ is_running(job.status)
        /\ ~NoPid(job.pid)
        /\ last'.input.p.returncode = 0)
       => /\ job' = job
          /\ cache' = cache
          /\ backup' = backup
          /\ NothingSaved(trace')
          /\ ~Sent(trace', "cat nohupfile")
          /\ last'.result = "True"]_vars

\* a poll found the process of an annotating job alive
C6_Witness ==
    /\ last.op = "process_running"
    /\ last.input.p.returncode = 0
    /\ last.result = "True"
    /\ job.status = "annotating"
    /\ job.pid \in alive

(***************************************************************************)
(* C7.  An abort of a job in waiting or waiting_install takes the job from *)
(* the queue and then sets the status aborted, and sends no termination    *)
(* signal and no other remote command.                                     *)
(***************************************************************************)
C7_AbortWaiting ==
    [][(last'.op = "abort_sparv" /\ is_waiting(job.status))
       => /\ job'.status = "aborted"
          /\ cache' = Dump(job')
          /\ last'.result = "None"
          /\ NoRemoteCall(trace')
          /\ Len(trace') = 2
          /\ trace'[1].e = "queue" /\ trace'[1].cmd = "remove"
          /\ trace'[2].e = "save" /\ trace'[2].rec.status = "aborted"]_vars

\* an abort of a queued job has ended
C7_Witness ==
    /\ last.op = "abort_sparv"
    /\ last.result = "None"
    /\ cache.status = "aborted"
    /\ Len(trace) = 2
    /\ trace[1].e = "queue"

(***************************************************************************)
(* C8.  run_sparv: with exit code 0 and a pid echoed, the status becomes   *)
(* annotating and pid the echoed pid; with another exit code or no pid     *)
(* echoed, the persisted status becomes error and pid is not set.          *)
(***************************************************************************)
C8_RunSparvOutcome ==
    [][last'.op = "run_sparv"
       => LET p == last'.input.p
          IN  IF p.returncode = 0 /\ p.stdout # None
              THEN /\ job'.status = "annotating"
                   /\ job'.pid = p.stdout
                   /\ cache' = Dump(job')
              ELSE /\ PersistedStatus(cache') = "error"
                   /\ job'.pid = job.pid
                   /\ cache' # NoJob => cache'.pid = job.pid]_vars

(***************************************************************************)
(* C9.  An abort of a running job with a pid: if the signal is sent with   *)
(* success, or fails with "no such process", the pid is cleared and the    *)
(* status is aborted; with any other error of kill JobError is raised and  *)
(* the status does not become aborted.                                     *)
(***************************************************************************)
C9_AbortRunning ==
    [][(last'.op = "abort_sparv" /\ is_running(job.status) /\ ~NoPid(job.pid))
       => LET p == last'.input.p
          IN  /\ Sent(trace', "kill -SIGTERM")
              /\ IF p.returncode = 0 \/ EndsWithNoSuchProcess(p.stderr)
                 THEN /\ last'.result = "None"
                      /\ job'.pid = None
                      /\ job'.status = "aborted"
                      /\ cache' = Dump(job')
                      /\ backup' = Dump(job')
                 ELSE /\ last'.result = "JobError"
                      /\ job'.status = job.status
                      /\ PersistedStatus(cache') # "aborted"
                      /\ cache' = cache]_vars

\* an abort whose kill found no such process has ended
C9_Witness ==
    /\ last.op = "abort_sparv"
    /\ last.input.p.returncode = 1
    /\ EndsWithNoSuchProcess(last.input.p.stderr)
    /\ last.result = "None"
    /\ cache.status = "aborted"
    /\ cache.pid = None

(***************************************************************************)
(* C10.  An abort of a job that is neither waiting nor running raises      *)
(* ProcessNotRunning, an abort of a running job without a pid raises       *)
(* ProcessNotFound; status and pid stay as they are and no remote command  *)
(* is sent.                                                                *)
(***************************************************************************)
C10_AbortRefused ==
    [][(last'.op = "abort_sparv" /\ ~is_waiting(job.status))
       => /\ ~is_running(job.status) => last'.result = "ProcessNotRunning"
          /\ (is_running(job.status) /\ NoPid(job.pid))
                => last'.result = "ProcessNotFound"
          /\ (~is_running(job.status) \/ NoPid(job.pid))
                => /\ job' = job
                   /\ cache' = cache
                   /\ backup' = backup
                   /\ trace' = <<>>]_vars

\* an abort found a running job without a pid
C10_Witness ==
    /\ last.op = "abort_sparv"
    /\ last.result = "ProcessNotFound"
    /\ is_running(cache.status)
    /\ cache.pid = None
    /\ trace = <<>>

(***************************************************************************)
(* C11.  sync_to_sparv ends with the status waiting, persisted, if the     *)
(* creation of the remote directory, the download from the storage, the    *)
(* copy of the config and the copy of the sources all succeed; if one of   *)
(* them fails it raises with the persisted status error, and the steps     *)
(* after the failed one are not made.  It never ends in syncing_corpus.    *)
(***************************************************************************)
\* the outside calls of a trace
RECURSIVE Calls(_)
Calls(events) ==
    IF events = <<>> THEN <<>>
    ELSE IF Head(events).e # "save"
         THEN <<Head(events).cmd>> \o Calls(Tail(events))
         ELSE Calls(Tail(events))

SyncSteps == <<"mkdir", "download_dir", "config", "source">>

C11_SyncToSparvOutcome ==
    [][last'.op = "sync_to_sparv"
       => LET fail == last'.input.fail
          IN  /\ job'.status # "syncing_corpus"
              /\ PersistedStatus(cache') # "syncing_corpus"
              /\ cache' = Dump(job')
              /\ backup' = Dump(job')
              /\ IF fail = 0
                 THEN /\ last'.result = "None"
                      /\ job'.status = "waiting"
                      /\ Calls(trace') = SyncSteps
                 ELSE /\ last'.result = "Exception"
                      /\ job'.status = "error"
                      /\ Calls(trace') = SubSeq(SyncSteps, 1, fail)]_vars

\* the copy of the sources failed, after three steps that succeeded
C11_Witness ==
    /\ last.op = "sync_to_sparv"
    /\ last.input.fail = 4
    /\ last.result = "Exception"
    /\ cache.status = "error"
    /\ SavedStatuses(trace) = <<"syncing_corpus", "error">>

(***************************************************************************)
(* C12.  sync_to_sparv of a corpus without a config file or without a      *)
(* source file raises MissingRequirement before anything is transferred    *)
(* (no download from the storage, no rsync); the status becomes error and  *)
(* the record is persisted with pid None.                                  *)
(***************************************************************************)
IsTransfer(event) == event.e \in {"rsync", "storage"}

C12_MissingRequirement ==
    [][(/\ last'.op = "sync_to_sparv"
        /\ ~(last'.input.contents.config /\ last'.input.contents.sources))
       => /\ last'.result = "MissingRequirement"
          /\ \A i \in 1..Len(trace') : ~IsTransfer(trace'[i])
          /\ job'.status = "error"
          /\ cache' = Dump(job')
          /\ cache'.pid = None]_vars

(***************************************************************************)
(* C13.  sync_results leaves the persisted status error if the rsync of    *)
(* the exports, the rsync of the plain-text sources, the upload of the     *)
(* exports or the upload of the plain-text sources fails; the status       *)
(* becomes done_syncing only if all four succeed.                          *)
(***************************************************************************)
C13_SyncResultsOutcome ==
    [][last'.op = "sync_results"
       => IF last'.input.failed = {}
          THEN job'.status = "done_syncing" /\ cache' = Dump(job')
          ELSE /\ PersistedStatus(cache') = "error"
               /\ job'.status = "error"]_vars

(***************************************************************************)
(* C14.  remove without abort of a job that is annotating or installing    *)
(* raises JobError and deletes the record neither from the cache nor from  *)
(* the backup.                                                             *)
(***************************************************************************)
C14_RemoveRunningRefused ==
    [][(last'.op = "remove" /\ ~last'.input.abort /\ is_running(job.status))
       => /\ last'.result = "JobError"
          /\ cache' = cache
          /\ backup' = backup]_vars

(***************************************************************************)
(* C15.  get_job after save gives a job equal to the one saved in every    *)
(* field (the status, by its name, and the latest progress among them),    *)
(* but for install_scrambled when the caller gives one that is not None.   *)
(***************************************************************************)
C15_SaveGetRoundTrip ==
    [][(last'.op = "get_job" /\ cache = Dump(job) /\ backup = Dump(job))
       => /\ last'.result = "None"
          /\ job' = IF last'.input.install_scrambled # None
                    THEN [job EXCEPT !.install_scrambled = last'.input.install_scrambled]
                    ELSE job]_vars

(***************************************************************************)
(* C16.  get_job of a corpus whose entry the cache has lost and whose      *)
(* backup file exists gives the job saved in the backup, not a new job     *)
(* with the status none.                                                   *)
(***************************************************************************)
C16_GetJobFromBackup ==
    [][(last'.op = "get_job" /\ cache = NoJob /\ backup # NoJob)
       => /\ last'.result = "None"
          /\ job' = load_from_str(backup, last'.input.install_scrambled)]_vars

(***************************************************************************)
(* C17.  Loading a stored record that holds fields which are no arguments  *)
(* of Job raises nothing, and gives the job that loading the record        *)
(* without these fields gives; the job has none of them.                   *)
(***************************************************************************)
C17_ObsoleteFieldsDropped ==
    [][(last'.op = "get_job" /\ HasObsolete(cache))
       => /\ last'.result = "None"
          /\ job' = load_from_str(WithoutObsolete(cache), last'.input.install_scrambled)
          /\ DOMAIN job' = DOMAIN NewJob]_vars

\* a record with a field sparv_done was loaded: the job was annotating
C17_Witness ==
    /\ last.op = "get_job"
    /\ last.result = "None"
    /\ HasObsolete(cache)
    /\ "sparv_done" \in DOMAIN cache
    /\ job.status = "annotating"
    /\ job.sparv_done = None

(***************************************************************************)
(* C18.  After a run_sparv that succeeds, latest_seconds_taken is 0 and    *)
(* started is the time of the launch, whatever they were before, in the    *)
(* job and in the stored record.                                           *)
(***************************************************************************)
C18_RunSparvResetsTime ==
    [][(last'.op = "run_sparv" /\ last'.result = "None")
       => /\ job'.latest_seconds_taken = 0
          /\ job'.started = last'.input.now
          /\ cache' = Dump(job')]_vars

(***************************************************************************)
(* C19.  The stored latest_seconds_taken is lowered only by the start of a *)
(* remote run (run_sparv, install_korp): by no other operation, and not by *)
(* reading seconds_taken of a job that is waiting, done, aborted or in     *)
(* error.                                                                  *)
(***************************************************************************)
C19_OnlyAStartLowers ==
    [][(/\ cache # NoJob
        /\ cache' # NoJob
        /\ cache'.latest_seconds_taken < cache.latest_seconds_taken)
       => last'.op \in {"run_sparv", "install_korp"}]_vars

(***************************************************************************)
(* C20.  While the status of a job stays annotating or installing, its     *)
(* latest_seconds_taken never decreases, and every reading of              *)
(* seconds_taken returns it: a reading is never below an earlier one, also *)
(* when the clock reads less than it did before.                           *)
(***************************************************************************)
C20_SecondsTakenMonotonic ==
    [][(is_running(job.status) /\ is_running(job'.status))
       => /\ job'.latest_seconds_taken >= job.latest_seconds_taken
          /\ last'.op = "seconds_taken"
                => /\ last'.result = job'.latest_seconds_taken
                   /\ cache'.latest_seconds_taken = last'.result]_vars

\* a reading of a running job for which the clock read less than the time
\* already measured
C20_Witness ==
    /\ last.op = "seconds_taken"
    /\ is_running(job.status)
    /\ job.started # None
    /\ last.input.now - job.started < last.result
    /\ last.result = MaxTime
    /\ cache.latest_seconds_taken = MaxTime

(***************************************************************************)
(* C21: the progress view shows "100%" only for a job whose status is      *)
(* done_annotating, done_syncing or done_installing; for a job whose       *)
(* status has process output and is none of these three, and whose parsed  *)
(* progress is "100%", it shows "99%".                                     *)
(***************************************************************************)
C21_ProgressCapped ==
    /\ progress(job) = "100%"
           => job.status \in {"done_annotating", "done_syncing", "done_installing"}
    /\ (/\ job.status \in {"annotating", "syncing_results", "installing", "error"}
        /\ job.progress_output = "100%")
           => progress(job) = "99%"

C21_Witness ==
    /\ last.op = "process_running"
    /\ job.status = "error"
    /\ job.progress_output = "100%"
    /\ progress(job) = "99%"

(***************************************************************************)
(* C22: a job whose persisted status is error keeps it under every poll:   *)
(* the poll leaves error in the job and in both stores, and sends nothing  *)
(* to the Sparv server but its probe and the read of the output, so no     *)
(* failed remote operation is run again by it.  The persisted status       *)
(* leaves error only in an operation that the caller asks for: the sync to *)
(* the Sparv server, the start of an annotation, the queueing and the      *)
(* start of an install, or the sync of the results.                        *)
(***************************************************************************)
PollCommands == {"kill -0", "cat nohupfile"}

CallerOperations ==
    {"sync_to_sparv", "run_sparv", "set_status", "install_korp", "sync_results"}

C23_LaunchNeverAheadOfRecord ==
    (/\ last.op \in {"run_sparv", "install_korp"}
     /\ last.result = "crashed"
     /\ Sent(trace, "run")
     /\ last.input.p.returncode = 0
     /\ last.input.p.stdout \in alive)
        => /\ cache # NoJob
           /\ cache.status \in {"annotating", "installing"}
           /\ cache.pid = last.input.p.stdout

(***************************************************************************)
(* C24: when an operation of the job has returned, every field of the      *)
(* stored record, in the cache and in the backup file, has the value of    *)
(* the field of the job in memory: status, pid, started, done,             *)
(* installed_korp and latest_seconds_taken.                                *)
(***************************************************************************)
PersistedFields ==
    {"status", "pid", "started", "done", "installed_korp", "latest_seconds_taken"}

StoredAsInMemory(stored, j) ==
    stored # NoJob => \A field \in PersistedFields : stored[field] = j[field]

\* stated of an operation that starts with the stores as the memory
C24_StoredAsInMemory ==
    [][(/\ last'.op \in {"run_sparv", "process_running", "seconds_taken"}
        /\ last'.op # "seconds_taken" => last'.result \in {"None", "True", "False"}
        /\ StoredAsInMemory(cache, job) /\ StoredAsInMemory(backup, job))
          => StoredAsInMemory(cache', job') /\ StoredAsInMemory(backup', job')]_vars

(***************************************************************************)
(* C25: an output that has a line "Nothing to be done." and no PROGRESS    *)
(* line parses to the progress "100%", wherever the line stands.  Stated   *)
(* of a call of get_output, on a job whose status has process output, that *)
(* returned.                                                               *)
(***************************************************************************)
HasLine(output, line) == \E i \in 1..Len(output) : output[i] = line

HasProgressLine(output) ==
    \E i \in 1..Len(output) : output[i].k = "tagged" /\ output[i].tag = "PROGRESS"

C25_NothingToBeDoneAnywhere ==
    (/\ last.op = "get_output"
     /\ job.status \in {"annotating", "done_annotating", "syncing_results",
                        "done_syncing", "installing", "done_installing", "error"}
     /\ last.result.raises = ""
     /\ HasLine(last.input.output, Text("Nothing to be done."))
     /\ ~HasProgressLine(last.input.output))
        => job.progress_output = "100%"

(***************************************************************************)
(* C26: parsing the same output again for the same job gives the same      *)
(* progress, warnings, errors, misc and completion time as the first       *)
(* parse; between the two parses the status and the start time of the job  *)
(* are the same.                                                           *)
(***************************************************************************)
C26_ParseTwiceSame ==
    [][(last'.op = "get_output" /\ last'.input.again)
          => /\ last'.result = last.result
             /\ job'.progress_output = job.progress_output
             /\ job'.sparv_done = job.sparv_done]_vars

C26_Witness ==
    /\ last.op = "get_output"
    /\ last.input.again
    /\ HasLine(last.input.output, Real(1))
    /\ last.result.raises = ""
    /\ last.result.ret[1] # <<>>
    /\ job.sparv_done # None

SavedBefore(events, status, cmd) ==
    \E i \in 1..Len(events), k \in 1..Len(events) :
        /\ i < k
        /\ events[i].e = "save" /\ events[i].rec.status = status
        /\ events[k].cmd = cmd

C28_RemoveFromSparv ==
    [][last'.op = "remove_from_sparv"
          => /\ job.status \notin {"waiting", "waiting_install", "annotating", "installing"}
                => /\ Sent(trace', "rm -rf")
                   /\ job'.status = job.status
                   /\ cache' = cache /\ backup' = backup
                   /\ last'.result = "None"
             /\ job.status \in {"waiting", "waiting_install"}
                => /\ SavedBefore(trace', "aborted", "rm -rf")
                   /\ job'.status = "aborted"
                   /\ last'.result = "None"]_vars

C28_Witness ==
    /\ last.op = "remove_from_sparv"
    /\ last.input.stderr
    /\ last.result = "None"
    /\ job.status = "done_installing"
    /\ Sent(trace, "rm -rf")
    /\ NothingSaved(trace)

(***************************************************************************)
(* C29: in every stored record installed_korp is true only if the job has  *)
(* reached done_installing at least once.                                  *)
(***************************************************************************)
C29_InstalledOnlyWhenDone ==
    /\ (cache # NoJob /\ cache.installed_korp) => last.installed
    /\ (backup # NoJob /\ backup.installed_korp) => last.installed

(***************************************************************************)
(* C30: every install_korp that launches sends the configured default      *)
(* installs followed by exactly one install, the scrambled one if          *)
(* install_scrambled is set and the plain one if not, however many         *)
(* installs the backend process has started before.  The list in the       *)
(* command is what follows the configured default installs.                *)
(***************************************************************************)
C30_OneInstallVariant ==
    last.op = "install_korp" =>
        \A i \in 1..Len(trace) :
            trace[i].cmd = "run" =>
                trace[i].rec.installs =
                    IF job.install_scrambled = 1
                    THEN <<"cwb:install_corpus_scrambled">>
                    ELSE <<"cwb:install_corpus">>

(***************************************************************************)
(* C31: the parsed progress of a job comes from the output of the current  *)
(* call only: after a call of get_output on a job whose status has process *)
(* output, progress_output is a progress that this output gives (the       *)
(* message of one of its PROGRESS lines, or "100%" for a line "Nothing to  *)
(* be done."), or none; after an empty output it is not the progress that  *)
(* an earlier call parsed.                                                 *)
(***************************************************************************)
ProgressOf(output) ==
    {output[i].msg : i \in {n \in 1..Len(output) :
                                output[n].k = "tagged" /\ output[n].tag = "PROGRESS"}}
    \cup (IF HasLine(output, Text("Nothing to be done.")) THEN {"100%"} ELSE {})

C31_ProgressFromThisOutput ==
    (/\ last.op = "get_output"
     /\ job.status \in {"annotating", "done_annotating", "syncing_results",
                        "done_syncing", "installing", "done_installing", "error"}
     /\ last.result.raises = "")
        => job.progress_output \in ProgressOf(last.input.output) \cup {"", "0%"}

(***************************************************************************)
(* C32: when an abort and a poll of the same corpus run on two Job objects *)
(* that were both loaded while the job was running, and the abort has      *)
(* stored the status aborted, the poll that was in flight does not         *)
(* overwrite the stored status with error or with a done status.           *)
(***************************************************************************)
C32_AbortNotLost ==
    [][(/\ last'.op = "process_running"
        /\ PersistedStatus(cache) = "aborted"
        /\ job[last'.input.handler].status \in {"annotating", "installing"})
          => PersistedStatus(cache') \notin
                {"error", "done_annotating", "done_syncing", "done_installing"}]_vars

(***************************************************************************)
(* C33: a process that a start launched, that is alive and that was sent   *)
(* no termination signal is the one whose pid the job has.  Stated of a    *)
(* start on a job whose pid, in memory and in the store, is the pid of a   *)
(* live process: if the process is alive after the start, the job and the  *)
(* stored record still have its pid.  No termination signal is sent in     *)
(* this specification.                                                     *)
(***************************************************************************)
C33_StartKeepsLiveProcessTracked ==
    [][(/\ last'.op \in {"run_sparv", "install_korp"}
        /\ job.pid \in alive
        /\ cache # NoJob /\ cache.pid = job.pid
        /\ job.pid \in alive')
          => /\ job'.pid = job.pid
             /\ cache'.pid = job.pid]_vars

(***************************************************************************)
(* C34: a poll of a job that has no pid and whose status is none, waiting, *)
(* waiting_install, done_annotating, done_syncing, done_installing or      *)
(* aborted leaves the stored status as it is.                              *)
(***************************************************************************)
C34_PollFrame ==
    [][(/\ last'.op = "process_running"
        /\ job.pid = None
        /\ job.status \in {"none", "waiting", "waiting_install", "done_annotating",
                           "done_syncing", "done_installing", "aborted"})
          => PersistedStatus(cache') = PersistedStatus(cache)]_vars

(***************************************************************************)
(* C35: with polls that come again and again, a job that is stored as      *)
(* annotating or installing and whose process is gone eventually is stored *)
(* as done_annotating, done_syncing, done_installing or error, without a   *)
(* pid; also when the backend crashes in a poll between the save that      *)
(* clears the pid and the save of the new status.                          *)
(***************************************************************************)
RunningWithoutProcess ==
    /\ cache # NoJob
    /\ cache.status \in {"annotating", "installing"}
    /\ cache.pid \notin alive

EndedWithoutPid ==
    /\ cache # NoJob
    /\ cache.status \in {"done_annotating", "done_syncing", "done_installing", "error"}
    /\ cache.pid = None

C36_RemovedFromBoth ==
    [][(last'.op = "remove" /\ last'.result = "None")
       => /\ cache' = NoJob
          /\ backup' = NoJob
          /\ get_job(cache', None) = Job([install_scrambled |-> None])]_vars

(***************************************************************************)
(* C37: remove with abort=True of an annotating job whose abort fails with *)
(* ProcessNotFound (no pid) or with JobError (kill fails with another      *)
(* error than "no such process") raises that error and leaves the record   *)
(* in cache and backup as it was, status and pid unchanged.                *)
(***************************************************************************)
C37_FailedAbortKeepsJob ==
    [][(last'.op = "remove" /\ last'.input.abort /\ job.status = "annotating"
        /\ (NoPid(job.pid)
            \/ (last'.input.p.returncode # 0
                /\ ~EndsWithNoSuchProcess(last'.input.p.stderr))))
       => /\ last'.result = IF NoPid(job.pid) THEN "ProcessNotFound" ELSE "JobError"
          /\ cache' = cache
          /\ backup' = backup
          /\ job'.status = job.status
          /\ job'.pid = job.pid]_vars

C37_Witness ==
    /\ last.op = "remove"
    /\ last.input.abort
    /\ last.result = "ProcessNotFound"
    /\ job.status = "annotating"
    /\ cache # NoJob
    /\ cache.status = "annotating"
    /\ backup # NoJob

====
